---- MODULE Spec2Model ----
(***************************************************************************)
(* FridgeEye scripts as state machines.                                    *)
(*                                                                         *)
(*   backend/recognition.py     single-shot capture, detect, crop, encode, *)
(*                              push to the Firebase Realtime Database     *)
(*   backend/custom_detect.py   the same pipeline without any guard        *)
(*   backend/camera_capture.py  CameraCapture: single / continuous capture *)
(*   detect_objects.py          YOLODetectionProcessor: remote detection,   *)
(*                              parse_results over the CSV it returns       *)
(*                                                                         *)
(* One process invocation runs one script; `script` says which.  Calls     *)
(* into the vendor SDK, OpenCV and Firebase are external: each such call   *)
(* either returns or raises, chosen nondeterministically where it is made. *)
(* An exception that no `except` clause catches ends the interpreter with  *)
(* exit status 1.  Detection coordinates are floats; they are modelled in  *)
(* units of one half, so int() is division by two, rounding down.          *)
(***************************************************************************)
EXTENDS Integers, Sequences, FiniteSets, TLC

VARIABLES
    script,                      \* which script this process runs
    pc,                          \* position of the interpreter in the script
    exitCode,                    \* exit status, meaningful once pc = "exit"
    uncaught,                    \* call whose exception nothing caught ("" if none)
    firebase_admin_initialized,  \* recognition.py:91
    save_local_snapshots,        \* args.save_local_snapshots
    save_local_fullframe,        \* args.save_local_fullframe
    captured,                    \* result of Capture: "pending", "frame", "none", "raised"
    detectRan,                   \* net.Detect has been called
    detections,                  \* the list net.Detect returned
    idx,                         \* number of detections the for loop has taken
    base64_snapshot_str,         \* recognition.py:142, << >> is None
    cropped,                     \* indices handed to the crop step
    failedAt,                    \* indices whose iteration had an exception caught
    pushed,                      \* records the remote store holds, in push order
    lastPush,                    \* how the latest push section ended
    capture_timestamp,           \* capture_timestamp_obj, recognition.py:130 (0 before)
    single,                      \* args.single
    running,                     \* CameraCapture.running
    camera,                      \* CameraCapture.camera: 0 is None, else a handle
    handles,                     \* every cv2.VideoCapture object created so far
    sigPc,                       \* where the interpreter was at the first signal
    lastCapture,                 \* outcome of the latest capture_image
    failedCaptures,              \* failed capture_image calls, counted up to MaxCount
    api_response,                \* what client.predict returned
    csv_clean,                   \* detect_objects.py:46, as lines of fields
    row_no,                      \* lines csv_reader has read
    items,                       \* detect_objects.py:60
    parsed,                      \* how parse_results ended
    results                      \* what detect_objects returned

vars == << script, pc, exitCode, uncaught, firebase_admin_initialized,
           save_local_snapshots, save_local_fullframe, captured, detectRan,
           detections, idx, base64_snapshot_str, cropped, failedAt, pushed,
           lastPush, capture_timestamp, single, running, camera, handles, sigPc, lastCapture, failedCaptures,
           api_response, csv_clean, row_no, items, parsed, results >>

detVars == << firebase_admin_initialized, save_local_snapshots,
              save_local_fullframe, captured, detectRan, detections, idx,
              base64_snapshot_str, cropped, failedAt, pushed, lastPush,
              capture_timestamp >>

camVars == << single, running, camera, handles, sigPc, lastCapture,
              failedCaptures >>

parseVars == << api_response, csv_clean, row_no, items, parsed, results >>

(***************************************************************************)
(* Bounds                                                                  *)
(***************************************************************************)
MaxDetections == 3      \* longest list the detector returns
MaxCount == 2           \* failedCaptures stops counting here
MaxLines == 3           \* most lines in the CSV text of a response

(***************************************************************************)
(* Detections                                                              *)
(***************************************************************************)
Box(l, t, r, b) == [Left |-> l, Top |-> t, Right |-> r, Bottom |-> b]

\* Boxes the detector may report, in halves: two proper boxes, one with
\* Left > Right, one with Top >= Bottom after int(), and one whose float
\* Left < Right but whose int() values coincide.
DetectionBoxes ==
    { Box(0, 0, 3, 3), Box(1, 0, 5, 3), Box(4, 0, 2, 3), Box(0, 3, 3, 2),
      Box(2, 0, 3, 3) }

RECURSIVE SeqsUpTo(_, _)
SeqsUpTo(S, n) ==
    IF n = 0 THEN { << >> }
    ELSE LET shorter == SeqsUpTo(S, n - 1)
         IN  shorter \cup { Append(s, x) : s \in { q \in shorter : Len(q) = n - 1 }, x \in S }

DetectionLists == SeqsUpTo(DetectionBoxes, MaxDetections)

\* int(x) for a non-negative float x held in halves
PyInt(x) == x \div 2

\* roi = (int(Left), int(Top), int(Right), int(Bottom))
Roi(d) == << PyInt(d.Left), PyInt(d.Top), PyInt(d.Right), PyInt(d.Bottom) >>

InvalidRoi_NoTopCheck(roi) == roi[1] >= roi[3]
\* if roi[0] >= roi[2] or roi[1] >= roi[3]  (Python indexes from 0)
InvalidRoi(roi) == roi[1] >= roi[3] \/ roi[2] >= roi[4]

\* the compressed image of a crop, as pil_img.save / cv2.imencode write it:
\* a start-of-image marker, then the width and the height
ImageBytes(w, h) == << 255, 216, w, h >>

\* base64.b64encode: three bytes to four sextets, "=" padding written as 64
RECURSIVE B64Encode(_)
B64Encode(bytes) ==
    IF Len(bytes) = 0 THEN << >>
    ELSE IF Len(bytes) = 1 THEN
        << bytes[1] \div 4, (bytes[1] % 4) * 16, 64, 64 >>
    ELSE IF Len(bytes) = 2 THEN
        << bytes[1] \div 4, (bytes[1] % 4) * 16 + bytes[2] \div 16,
           (bytes[2] % 16) * 4, 64 >>
    ELSE
        << bytes[1] \div 4, (bytes[1] % 4) * 16 + bytes[2] \div 16,
           (bytes[2] % 16) * 4 + bytes[3] \div 64, bytes[3] % 64 >>
        \o B64Encode(SubSeq(bytes, 4, Len(bytes)))

\* the encoded snapshot of a roi
Snapshot(roi) == B64Encode(ImageBytes(roi[3] - roi[1], roi[4] - roi[2]))

\* the record db_ref.push receives for detection i
Record(i, d, img) == [index |-> i, boundingBox |-> d, image |-> img]

(***************************************************************************)
(* Process start and end                                                   *)
(***************************************************************************)
Scripts == { "recognition", "custom_detect", "camera_capture", "detect_objects" }

\* a result of parse_results / detect_objects: not yet there, None, or the dict
Pending == [kind |-> "pending", detected_items |-> << >>, total_items |-> 0]
None == [kind |-> "none", detected_items |-> << >>, total_items |-> 0]

Init ==
    /\ script \in Scripts
    /\ pc = "start"
    /\ exitCode = 0
    /\ uncaught = ""
    /\ firebase_admin_initialized = FALSE
    /\ save_local_snapshots \in (IF script = "recognition" THEN BOOLEAN ELSE { FALSE })
    /\ save_local_fullframe \in (IF script = "recognition" THEN BOOLEAN ELSE { FALSE })
    /\ captured = "pending"
    /\ detectRan = FALSE
    /\ detections = << >>
    /\ idx = 0
    /\ base64_snapshot_str = << >>
    /\ cropped = { }
    /\ failedAt = { }
    /\ pushed = << >>
    /\ lastPush = "none"
    /\ capture_timestamp = 0
    /\ single \in (IF script = "camera_capture" THEN BOOLEAN ELSE { FALSE })
    /\ running = TRUE
    /\ camera = 0
    /\ handles = << >>
    /\ sigPc = ""
    /\ lastCapture = "none"
    /\ failedCaptures = 0
    /\ api_response = [kind |-> "pending", csv |-> << >>]
    /\ csv_clean = << >>
    /\ row_no = 0
    /\ items = << >>
    /\ parsed = Pending
    /\ results = Pending

\* an exception propagates to the top level: traceback, exit status 1
Raise(what) ==
    /\ pc' = "exit"
    /\ exitCode' = 1
    /\ uncaught' = what

\* the script runs off its end, or calls sys.exit(code)
Exit(code) ==
    /\ pc' = "exit"
    /\ exitCode' = code
    /\ uncaught' = uncaught

Goto(label) ==
    /\ pc' = label
    /\ UNCHANGED << exitCode, uncaught >>

(***************************************************************************)
(* backend/recognition.py                                                  *)
(***************************************************************************)
\* Firebase initialization: no credentials or URL configured, credentials
\* file missing, initialize_app raising (caught), or success.
FirebaseConfigs == { "unset", "missing_file", "init_raises", "ok" }

RecFirebaseInit ==
    /\ script = "recognition"
    /\ pc = "start"
    /\ \E cfg \in FirebaseConfigs :
          firebase_admin_initialized' = (cfg = "ok")
    /\ Goto("load")
    /\ UNCHANGED << script, parseVars, save_local_snapshots, save_local_fullframe, captured,
                    detectRan, detections, idx, base64_snapshot_str, cropped,
                    failedAt, pushed, lastPush,
                    capture_timestamp, camVars >>

\* net = detectNet(...); input_stream = videoSource(...): neither is guarded
RecLoad ==
    /\ script = "recognition"
    /\ pc = "load"
    /\ \/ Goto("capture")
       \/ Raise("detectNet")
       \/ Raise("videoSource")
    /\ UNCHANGED << script, parseVars, detVars, camVars >>

\* what follows img = input_stream.Capture(timeout=10000)
AfterCapture_NoExit(img) == Goto("detect")
AfterCapture(img) ==
    IF img = "none"
    THEN \* delete_app, when Firebase is up, may itself raise; then sys.exit(1)
         \/ Exit(1)
         \/ firebase_admin_initialized /\ Raise("delete_app")
    ELSE Goto("detect")

RecCapture ==
    /\ script = "recognition"
    /\ pc = "capture"
    /\ \/ \E img \in { "frame", "none" } :
             /\ captured' = img
             /\ AfterCapture(img)
       \/ /\ captured' = "raised"
          /\ Raise("Capture")
    /\ UNCHANGED << script, parseVars, firebase_admin_initialized, save_local_snapshots,
                    save_local_fullframe, detectRan, detections, idx,
                    base64_snapshot_str, cropped, failedAt, pushed, lastPush,
                    capture_timestamp, camVars >>

\* detections = net.Detect(img, overlay=args.overlay): not guarded
\* what datetime.datetime.now() may return (recognition.py:130)
ClockReadings == { 1, 2 }

RecDetect ==
    /\ script = "recognition"
    /\ pc = "detect"
    /\ detectRan' = TRUE
    /\ \/ \E dets \in DetectionLists, now \in ClockReadings :
             /\ detections' = dets
             /\ capture_timestamp' = now
             /\ Goto("loop")
       \/ /\ Raise("Detect")
          /\ UNCHANGED << detections, capture_timestamp >>
    /\ UNCHANGED << script, parseVars, firebase_admin_initialized, save_local_snapshots,
                    save_local_fullframe, captured, idx, base64_snapshot_str,
                    cropped, failedAt, pushed, lastPush, camVars >>

\* for idx, detection in enumerate(detections): the ROI check and `continue`
RecLoopHead ==
    /\ script = "recognition"
    /\ pc = "loop"
    /\ IF idx < Len(detections)
       THEN /\ idx' = idx + 1
            /\ IF InvalidRoi(Roi(detections[idx + 1]))
               THEN /\ Goto("loop")
                    /\ UNCHANGED base64_snapshot_str
               ELSE /\ Goto("crop")
                    /\ base64_snapshot_str' = << >>
       ELSE /\ Goto("fullframe")
            /\ UNCHANGED << idx, base64_snapshot_str >>
    /\ UNCHANGED << script, parseVars, firebase_admin_initialized, save_local_snapshots,
                    save_local_fullframe, captured, detectRan, detections,
                    cropped, failedAt, pushed, lastPush,
                    capture_timestamp, camVars >>

\* except Exception as e: Log.Error(...); control falls through to the push section
SnapshotError_Break == Goto("fullframe")
SnapshotError == Goto("push")

\* cudaAllocMapped, cudaCrop, cudaDeviceSynchronize
RecCrop ==
    /\ script = "recognition"
    /\ pc = "crop"
    /\ cropped' = cropped \cup { idx }
    /\ \/ /\ Goto("encode")
          /\ UNCHANGED failedAt
       \/ /\ SnapshotError
          /\ failedAt' = failedAt \cup { idx }
    /\ UNCHANGED << script, parseVars, firebase_admin_initialized, save_local_snapshots,
                    save_local_fullframe, captured, detectRan, detections, idx,
                    base64_snapshot_str, pushed, lastPush,
                    capture_timestamp, camVars >>

\* cudaToNumpy, Image.fromarray, pil_img.save, base64.b64encode
RecEncode ==
    /\ script = "recognition"
    /\ pc = "encode"
    /\ \/ /\ base64_snapshot_str' = Snapshot(Roi(detections[idx]))
          /\ Goto(IF save_local_snapshots THEN "save" ELSE "push")
          /\ UNCHANGED failedAt
       \/ /\ SnapshotError
          /\ failedAt' = failedAt \cup { idx }
          /\ UNCHANGED base64_snapshot_str
    /\ UNCHANGED << script, parseVars, firebase_admin_initialized, save_local_snapshots,
                    save_local_fullframe, captured, detectRan, detections, idx,
                    cropped, pushed, lastPush,
                    capture_timestamp, camVars >>

\* if args.save_local_snapshots: saveImage(snapshot_filename, snapshot_img)
RecSaveLocal ==
    /\ script = "recognition"
    /\ pc = "save"
    /\ \/ /\ Goto("push")
          /\ UNCHANGED failedAt
       \/ /\ SnapshotError
          /\ failedAt' = failedAt \cup { idx }
    /\ UNCHANGED << script, parseVars, firebase_admin_initialized, save_local_snapshots,
                    save_local_fullframe, captured, detectRan, detections, idx,
                    base64_snapshot_str, cropped, pushed, lastPush,
                    capture_timestamp, camVars >>

\* the remote store after db_ref.push raised: nothing is undone
StoreAfterPushError_Rollback(store) == << >>
StoreAfterPushError(store) == store

\* except Exception as e: Log.Error(...); the for loop goes on
PushError == Goto("loop")

\* 'captureTimestamp': capture_timestamp_obj.isoformat(), for detection i
CaptureTimestampField_Now(i) == capture_timestamp + i
CaptureTimestampField(i) == capture_timestamp

\* firebase_data for detection i
FirebaseData(i, d, img) ==
    [index |-> i, boundingBox |-> d, image |-> img,
     captureTimestamp |-> CaptureTimestampField(i)]

PushGuard_NoSnapshotCheck == firebase_admin_initialized
\* if firebase_admin_initialized and base64_snapshot_str:
PushGuard == firebase_admin_initialized /\ base64_snapshot_str # << >>

\* the push section: build firebase_data, db_ref.push(firebase_data)
RecPush ==
    /\ script = "recognition"
    /\ pc = "push"
    /\ IF PushGuard
       THEN \/ /\ pushed' = Append(pushed, FirebaseData(idx, detections[idx], base64_snapshot_str))
               /\ lastPush' = "ok"
               /\ Goto("loop")
               /\ UNCHANGED failedAt
            \/ /\ pushed' = StoreAfterPushError(pushed)
               /\ lastPush' = "failed"
               /\ PushError
               /\ failedAt' = failedAt \cup { idx }
       ELSE /\ Goto("loop")
            /\ lastPush' = "skipped"
            /\ UNCHANGED << pushed, failedAt >>
    /\ UNCHANGED << script, parseVars, firebase_admin_initialized, save_local_snapshots,
                    save_local_fullframe, captured, detectRan, detections, idx,
                    base64_snapshot_str, cropped, capture_timestamp, camVars >>

\* except Exception as e: Log.Error(f"Error saving local full frame: {e}")
FullFrameError_Uncaught == Raise("saveImage")
FullFrameError == Goto("cleanup")

\* if args.save_local_fullframe: try: saveImage(...)
RecFullFrame ==
    /\ script = "recognition"
    /\ pc = "fullframe"
    /\ IF save_local_fullframe
       THEN \/ Goto("cleanup")
            \/ FullFrameError
       ELSE Goto("cleanup")
    /\ UNCHANGED << script, parseVars, detVars, camVars >>

\* except Exception as e: Log.Error(f"Error cleaning up Firebase app: {e}")
CleanupError_Uncaught == Raise("delete_app")
CleanupError == Exit(0)

\* PrintProfilerTimes, del, delete_app under try, then the script ends
RecCleanup ==
    /\ script = "recognition"
    /\ pc = "cleanup"
    /\ IF firebase_admin_initialized
       THEN \/ Exit(0)
            \/ CleanupError
       ELSE Exit(0)
    /\ UNCHANGED << script, parseVars, detVars, camVars >>

RecognitionNext ==
    \/ RecFirebaseInit
    \/ RecLoad
    \/ RecCapture
    \/ RecDetect
    \/ RecLoopHead
    \/ RecCrop
    \/ RecEncode
    \/ RecSaveLocal
    \/ RecPush
    \/ RecFullFrame
    \/ RecCleanup

(***************************************************************************)
(* backend/custom_detect.py                                                *)
(***************************************************************************)
\* credentials.Certificate, firebase_admin.initialize_app: at module level,
\* no try
CdFirebaseInit ==
    /\ script = "custom_detect"
    /\ pc = "start"
    /\ \/ /\ firebase_admin_initialized' = TRUE
          /\ Goto("load")
       \/ /\ Raise("initialize_app")
          /\ UNCHANGED firebase_admin_initialized
    /\ UNCHANGED << script, parseVars, save_local_snapshots, save_local_fullframe, captured,
                    detectRan, detections, idx, base64_snapshot_str, cropped,
                    failedAt, pushed, lastPush,
                    capture_timestamp, camVars >>

\* videoSource, videoOutput, detectNet, db.reference
CdLoad ==
    /\ script = "custom_detect"
    /\ pc = "load"
    /\ \/ Goto("capture")
       \/ Raise("videoSource")
       \/ Raise("detectNet")
    /\ UNCHANGED << script, parseVars, detVars, camVars >>

\* img = input.Capture(): the result is not looked at
CdCapture ==
    /\ script = "custom_detect"
    /\ pc = "capture"
    /\ \/ \E img \in { "frame", "none" } :
             /\ captured' = img
             /\ Goto("detect")
       \/ /\ captured' = "raised"
          /\ Raise("Capture")
    /\ UNCHANGED << script, parseVars, firebase_admin_initialized, save_local_snapshots,
                    save_local_fullframe, detectRan, detections, idx,
                    base64_snapshot_str, cropped, failedAt, pushed, lastPush,
                    capture_timestamp, camVars >>

\* detections = net.Detect(img, overlay=args.overlay); Detect(None) raises
CdDetect ==
    /\ script = "custom_detect"
    /\ pc = "detect"
    /\ detectRan' = TRUE
    /\ \/ /\ captured = "frame"
          /\ \E dets \in DetectionLists :
                /\ detections' = dets
                /\ Goto("loop")
       \/ /\ Raise("Detect")
          /\ UNCHANGED detections
    /\ UNCHANGED << script, parseVars, firebase_admin_initialized, save_local_snapshots,
                    save_local_fullframe, captured, idx, base64_snapshot_str,
                    cropped, failedAt, pushed, lastPush,
                    capture_timestamp, camVars >>

\* for detection in detections: every detection goes on to the crop
CdLoopHead ==
    /\ script = "custom_detect"
    /\ pc = "loop"
    /\ IF idx < Len(detections)
       THEN /\ idx' = idx + 1
            /\ Goto("crop")
       ELSE /\ Exit(0)      \* output.Render(img), net.PrintProfilerTimes()
            /\ UNCHANGED idx
    /\ UNCHANGED << script, parseVars, firebase_admin_initialized, save_local_snapshots,
                    save_local_fullframe, captured, detectRan, detections,
                    base64_snapshot_str, cropped, failedAt, pushed, lastPush,
                    capture_timestamp, camVars >>

\* img_np[top:bottom, left:right]: a slice whose end is not after its start
\* is empty
SliceLen(from, to) == IF to > from THEN to - from ELSE 0

\* _, buffer = cv2.imencode('.jpg', cropped): the bytes of the image; for an
\* empty array the encoder fails, which builds report by raising cv2.error
\* (see CdCropEncode) or by a False that the script drops, the buffer empty
Imencode(w, h) == IF w = 0 \/ h = 0 THEN << >> ELSE ImageBytes(w, h)

\* cropped = img_np[top:bottom, left:right]; cv2.imencode('.jpg', cropped);
\* base64.b64encode(buffer)
CdCropEncode ==
    /\ script = "custom_detect"
    /\ pc = "crop"
    /\ cropped' = cropped \cup { idx }
    /\ LET roi == Roi(detections[idx])
           w == SliceLen(roi[1], roi[3])
           h == SliceLen(roi[2], roi[4])
       IN  \/ /\ base64_snapshot_str' = B64Encode(Imencode(w, h))
              /\ Goto("push")
           \/ /\ Raise("imencode")
              /\ UNCHANGED base64_snapshot_str
    /\ UNCHANGED << script, parseVars, firebase_admin_initialized, save_local_snapshots,
                    save_local_fullframe, captured, detectRan, detections, idx,
                    failedAt, pushed, lastPush,
                    capture_timestamp, camVars >>

\* db_ref.push(data): no try
CdPush ==
    /\ script = "custom_detect"
    /\ pc = "push"
    /\ \/ /\ pushed' = Append(pushed, Record(idx, detections[idx], base64_snapshot_str))
          /\ lastPush' = "ok"
          /\ Goto("loop")
       \/ /\ Raise("push")
          /\ lastPush' = "failed"
          /\ UNCHANGED pushed
    /\ UNCHANGED << script, parseVars, firebase_admin_initialized, save_local_snapshots,
                    save_local_fullframe, captured, detectRan, detections, idx,
                    base64_snapshot_str, cropped, failedAt, capture_timestamp,
                    camVars >>

CustomDetectNext ==
    \/ CdFirebaseInit
    \/ CdLoad
    \/ CdCapture
    \/ CdDetect
    \/ CdLoopHead
    \/ CdCropEncode
    \/ CdPush

(***************************************************************************)
(* backend/camera_capture.py                                               *)
(***************************************************************************)
Handle(isOpened) == [opened |-> isOpened, released |-> FALSE]

\* CameraCapture.signal_handler, installed for SIGINT and SIGTERM: the
\* default KeyboardInterrupt handler is replaced, so a signal raises nothing
SignalHandler ==
    /\ script = "camera_capture"
    /\ pc # "exit"
    /\ running' = FALSE
    /\ sigPc' = IF sigPc = "" THEN pc ELSE sigPc
    /\ UNCHANGED << script, parseVars, pc, exitCode, uncaught, detVars, single, camera,
                    handles, lastCapture, failedCaptures >>

\* setup_camera, called from main (single) or run_continuous_capture: the
\* GStreamer pipeline, then VideoCapture(0); False when neither opens
CamSetup ==
    /\ script = "camera_capture"
    /\ pc = "start"
    /\ \/ /\ handles' = << Handle(TRUE) >>
          /\ camera' = 1
          /\ Goto(IF single THEN "call_capture" ELSE "test")
       \/ /\ handles' = << Handle(FALSE), Handle(TRUE) >>
          /\ camera' = 2
          /\ Goto(IF single THEN "call_capture" ELSE "test")
       \/ /\ handles' = << Handle(FALSE), Handle(FALSE) >>
          /\ camera' = 2
          /\ Exit(0)
    /\ UNCHANGED << script, parseVars, detVars, single, running, sigPc, lastCapture,
                    failedCaptures >>

LoopCondition_Ignored == TRUE
\* while self.running:
LoopCondition == running

CamTest ==
    /\ script = "camera_capture"
    /\ pc = "test"
    /\ IF LoopCondition THEN Goto("call_capture") ELSE Goto("cleanup")
    /\ UNCHANGED << script, parseVars, detVars, camVars >>

\* self.capture_image() is entered
CamCaptureBegin ==
    /\ script = "camera_capture"
    /\ pc = "call_capture"
    /\ Goto("in_capture")
    /\ UNCHANGED << script, parseVars, detVars, camVars >>

\* what capture_image returns: "ok" is True, the others False
CaptureImage(available, readOk, writeOk) ==
    IF ~available THEN "unavailable"
    ELSE IF ~readOk THEN "read_failed"
    ELSE IF ~writeOk THEN "write_failed"
    ELSE "ok"

Bump(n) == IF n < MaxCount THEN n + 1 ELSE n

\* the loop body after self.capture_image(): its result is dropped
AfterCaptureImage_Fatal(result) ==
    IF result = "ok" THEN Goto("sleep") ELSE Goto("cleanup")
AfterCaptureImage(result) == Goto("sleep")

\* capture_image runs to its return, or raises (camera.read, cv2.imwrite)
CamCaptureEnd ==
    /\ script = "camera_capture"
    /\ pc = "in_capture"
    /\ \/ \E readOk \in BOOLEAN, writeOk \in BOOLEAN :
             LET available == camera # 0 /\ handles[camera].opened
                                         /\ ~handles[camera].released
                 result == CaptureImage(available, readOk, writeOk)
             IN  /\ lastCapture' = result
                 /\ failedCaptures' = IF result = "ok" THEN failedCaptures
                                      ELSE Bump(failedCaptures)
                 /\ IF single THEN Goto("cleanup") ELSE AfterCaptureImage(result)
       \/ /\ lastCapture' = "raised"
          /\ UNCHANGED failedCaptures
          /\ IF single
             THEN Raise("capture_image")            \* main has no finally
             ELSE /\ pc' = "cleanup"                \* finally: self.cleanup()
                  /\ uncaught' = "capture_image"
                  /\ UNCHANGED exitCode
    /\ UNCHANGED << script, parseVars, detVars, single, running, camera, handles, sigPc >>

\* time.sleep(interval_seconds): resumed after a handler that raises nothing
CamSleep ==
    /\ script = "camera_capture"
    /\ pc = "sleep"
    /\ Goto("test")
    /\ UNCHANGED << script, parseVars, detVars, camVars >>

\* cleanup: if self.camera: self.camera.release(); then main returns, or the
\* pending exception goes on to the top level
CamCleanup ==
    /\ script = "camera_capture"
    /\ pc = "cleanup"
    /\ handles' = IF camera # 0
                  THEN [handles EXCEPT ![camera].released = TRUE]
                  ELSE handles
    /\ pc' = "exit"
    /\ exitCode' = IF uncaught # "" THEN 1 ELSE 0
    /\ UNCHANGED << script, parseVars, uncaught, detVars, single, running, camera, sigPc,
                    lastCapture, failedCaptures >>

\* the steps of the interpreter: everything but the arrival of a signal
CameraStep ==
    \/ CamSetup
    \/ CamTest
    \/ CamCaptureBegin
    \/ CamCaptureEnd
    \/ CamSleep
    \/ CamCleanup

CameraNext ==
    \/ SignalHandler
    \/ CameraStep

(***************************************************************************)
(* detect_objects.py                                                       *)
(***************************************************************************)
\* CSV text is a sequence of lines, a line the sequence of its fields; the
\* empty line has no field.
Header == << "class", "confidence", "bx", "by", "bw", "bh" >>
\* the line of three backquotes that opens or closes a Markdown code block
Fence == << "<fence>" >>
BlankLine == << >>

\* the value DictReader gives a column the row has no field for (restval)
NoneValue == "<None>"

\* lines a response may hold: the header, two well-formed rows, a row with a
\* non-numeric confidence, one with an empty bx, one that stops before bh,
\* and the empty line
CsvLines ==
    { Header,
      << "bottle", "0.9", "0.5", "0.5", "0.9", "0.9" >>,
      << "apple", "0.5", "0.9", "0.5", "0.5", "0.5" >>,
      << "bottle", "high", "0.5", "0.5", "0.9", "0.9" >>,
      << "bottle", "0.9", "", "0.5", "0.9", "0.9" >>,
      << "bottle", "0.9", "0.5", "0.5", "0.9" >>,
      BlankLine }

\* the CSV texts of a response: bare, or between Markdown fences
CsvTexts ==
    LET bodies == SeqsUpTo(CsvLines, MaxLines)
    IN  bodies \cup { << Fence >> \o b \o << Fence >> : b \in bodies }

\* what client.predict may return: None, a 1-tuple, (result_image, csv_data)
ApiResponses ==
    { [kind |-> "none", csv |-> << >>], [kind |-> "short", csv |-> << >>] }
        \cup { [kind |-> "pair", csv |-> t] : t \in CsvTexts }

\* str.strip() on the text: the empty lines at both ends go
RECURSIVE Strip(_)
Strip(lines) ==
    IF lines = << >> THEN << >>
    ELSE IF Head(lines) = BlankLine THEN Strip(Tail(lines))
    ELSE IF lines[Len(lines)] = BlankLine THEN Strip(SubSeq(lines, 1, Len(lines) - 1))
    ELSE lines

\* str.replace of the fence by the empty string: a line that was only a
\* fence is left empty
RemoveFences(lines) ==
    [k \in 1..Len(lines) |-> IF lines[k] = Fence THEN BlankLine ELSE lines[k]]

\* csv_clean: strip, replace, strip
Clean(csv_data) == Strip(RemoveFences(Strip(csv_data)))

\* row[key] of the dict DictReader builds from fieldnames and a row: the last
\* column of that name wins, a column past the row's end holds None
Field(fieldnames, row, key) ==
    LET cols == { k \in 1..Len(fieldnames) : fieldnames[k] = key }
        col == CHOOSE k \in cols : \A j \in cols : j <= k
    IN  IF cols = { } THEN [exc |-> "KeyError", val |-> ""]
        ELSE IF col > Len(row) THEN [exc |-> "", val |-> NoneValue]
        ELSE [exc |-> "", val |-> row[col]]

\* float(text), in tenths
FloatValue(text) == IF text = "0.9" THEN 9 ELSE 5

\* float(row[key])
Float(fieldnames, row, key) ==
    LET f == Field(fieldnames, row, key)
    IN  IF f.exc # "" THEN [exc |-> f.exc, val |-> 0]
        ELSE IF f.val = NoneValue THEN [exc |-> "TypeError", val |-> 0]
        ELSE IF f.val \notin { "0.9", "0.5" } THEN [exc |-> "ValueError", val |-> 0]
        ELSE [exc |-> "", val |-> FloatValue(f.val)]

\* the body of the try: the dict literal is evaluated entry by entry, and
\* the first exception ends it
ParseItem(fieldnames, row) ==
    LET class == Field(fieldnames, row, "class")
        conf == Float(fieldnames, row, "confidence")
        bx == Float(fieldnames, row, "bx")
        by == Float(fieldnames, row, "by")
        bw == Float(fieldnames, row, "bw")
        bh == Float(fieldnames, row, "bh")
        parts == << class, conf, bx, by, bw, bh >>
        bad == { k \in 1..6 : parts[k].exc # "" }
        item == [class |-> class.val, confidence |-> conf.val,
                 bounding_box |-> [center_x |-> bx.val, center_y |-> by.val,
                                   width |-> bw.val, height |-> bh.val]]
    IN  IF bad = { } THEN [exc |-> "", item |-> item]
        ELSE [exc |-> parts[CHOOSE k \in bad : \A j \in bad : k <= j].exc,
              item |-> item]

\* except (ValueError, KeyError) as e:
Caught(exc) == exc \in { "ValueError", "KeyError" }

TotalItems_RowsRead(its, rows) == rows
\* 'total_items': len(items)
TotalItems(its, rows) == Len(its)

ResultDict(its, rows) ==
    [kind |-> "dict", detected_items |-> its, total_items |-> TotalItems(its, rows)]

\* result = self.client.predict(...): returns, or raises into the except of
\* detect_objects, which returns None
DoPredict ==
    /\ script = "detect_objects"
    /\ pc = "start"
    /\ \/ \E resp \in ApiResponses :
             /\ api_response' = resp
             /\ Goto("parse")
             /\ UNCHANGED results
       \/ /\ results' = None
          /\ Goto("main")
          /\ UNCHANGED api_response
    /\ UNCHANGED << script, detVars, camVars, csv_clean, row_no, items, parsed >>

\* parse_results up to the DictReader: the two early returns
ParseBegin ==
    /\ script = "detect_objects"
    /\ pc = "parse"
    /\ IF api_response.kind # "pair"
       THEN /\ parsed' = None
            /\ Goto("return")
            /\ UNCHANGED << csv_clean, row_no >>
       ELSE /\ csv_clean' = Clean(api_response.csv)
            /\ IF csv_clean' = << >> \/ csv_clean' = << Header >>
               THEN /\ parsed' = [kind |-> "dict", detected_items |-> << >>,
                                  total_items |-> 0]
                    /\ Goto("return")
                    /\ UNCHANGED row_no
               ELSE /\ row_no' = 1          \* the first line is the fieldnames
                    /\ Goto("rows")
                    /\ UNCHANGED parsed
    /\ UNCHANGED << script, detVars, camVars, api_response, items, results >>

\* for row in csv_reader: one line; the return after the last
ParseRow ==
    /\ script = "detect_objects"
    /\ pc = "rows"
    /\ IF row_no < Len(csv_clean)
       THEN LET row == csv_clean[row_no + 1]
                got == ParseItem(csv_clean[1], row)
            IN  /\ row_no' = row_no + 1
                /\ IF row = BlankLine
                   THEN /\ Goto("rows")
                        /\ UNCHANGED << items, parsed >>
                   ELSE IF got.exc = ""
                   THEN /\ items' = Append(items, got.item)
                        /\ Goto("rows")
                        /\ UNCHANGED parsed
                   ELSE IF Caught(got.exc)
                   THEN /\ Goto("rows")
                        /\ UNCHANGED << items, parsed >>
                   ELSE /\ parsed' = [kind |-> "raised", detected_items |-> << >>,
                                      total_items |-> 0]
                        /\ Goto("return")
                        /\ UNCHANGED items
       ELSE /\ parsed' = ResultDict(items, row_no - 1)
            /\ Goto("return")
            /\ UNCHANGED << row_no, items >>
    /\ UNCHANGED << script, detVars, camVars, api_response, csv_clean, results >>

\* return self.parse_results(result, image_path), or None from the except
DetectReturn ==
    /\ script = "detect_objects"
    /\ pc = "return"
    /\ results' = IF parsed.kind = "raised" THEN None ELSE parsed
    /\ Goto("main")
    /\ UNCHANGED << script, detVars, camVars, api_response, csv_clean, row_no,
                    items, parsed >>

\* main: the summary and the export when there are results, then the end
DetectMain ==
    /\ script = "detect_objects"
    /\ pc = "main"
    /\ Exit(0)
    /\ UNCHANGED << script, detVars, camVars, parseVars >>

DetectObjectsNext ==
    \/ DoPredict
    \/ ParseBegin
    \/ ParseRow
    \/ DetectReturn
    \/ DetectMain

(***************************************************************************)
(* Specifications                                                          *)
(***************************************************************************)
Next ==
    \/ RecognitionNext
    \/ CustomDetectNext
    \/ CameraNext
    \/ DetectObjectsNext

Spec == Init /\ [][Next]_vars

CameraInit == Init /\ script = "camera_capture"

\* the interpreter keeps executing: every call it makes returns or raises
CameraSpec == CameraInit /\ [][CameraNext]_vars /\ WF_vars(CameraStep)

(***************************************************************************)
(* Properties                                                              *)
(***************************************************************************)
\* a box whose integer corners have left >= right or top >= bottom
Degenerate(d) ==
    PyInt(d.Left) >= PyInt(d.Right) \/ PyInt(d.Top) >= PyInt(d.Bottom)

ValidIndices == { i \in 1..Len(detections) : ~Degenerate(detections[i]) }

PushedIndices == { pushed[k].index : k \in 1..Len(pushed) }

IsPrefix(s, t) == Len(s) <= Len(t) /\ SubSeq(t, 1, Len(s)) = s

\* recognition.py has left its detection loop by running out of detections
RecLoopDone == script = "recognition" /\ pc \in { "fullframe", "cleanup" }

\* the detector returned, and returned the empty list
DetectedNothing == detectRan /\ uncaught # "Detect" /\ detections = << >>

\* C1: in recognition.py a detection whose integer box is degenerate is never
\* handed to the crop step nor pushed; when the loop is over every other
\* detection has been handed to the crop step; and with Firebase initialized
\* and no failure in the loop the number of records pushed is the number of
\* detections with a non-degenerate box.
C1_DegenerateSkipped ==
    script = "recognition" =>
        /\ \A i \in 1..Len(detections) :
              Degenerate(detections[i]) => i \notin cropped /\ i \notin PushedIndices
        /\ RecLoopDone => cropped = ValidIndices
        /\ (RecLoopDone /\ firebase_admin_initialized /\ failedAt = { })
              => Len(pushed) = Cardinality(ValidIndices)

\* three detections, one of them degenerate, two records
C1_Witness ==
    /\ RecLoopDone
    /\ firebase_admin_initialized
    /\ failedAt = { }
    /\ Len(detections) = 3
    /\ Cardinality(ValidIndices) = 2
    /\ Len(pushed) = 2

\* C2: in recognition.py, when Capture returns None the process has exited
\* with code 1, net.Detect was never called and nothing was pushed.
C2_CaptureNoneExits ==
    (script = "recognition" /\ captured = "none") =>
        /\ pc = "exit"
        /\ exitCode = 1
        /\ ~detectRan
        /\ pushed = << >>

C2_Witness ==
    /\ script = "recognition"
    /\ captured = "none"
    /\ firebase_admin_initialized
    /\ uncaught = ""
    /\ pc = "exit"

\* C3: in recognition.py and custom_detect.py, once the detector has returned
\* the empty list nothing is ever pushed, no crop is attempted, and the
\* process, when it has ended, has ended with exit code 0 and no uncaught
\* exception.
C3_NoDetectionsNoRecords ==
    (script \in { "recognition", "custom_detect" } /\ DetectedNothing) =>
        /\ pushed = << >>
        /\ cropped = { }
        /\ pc \in { "loop", "fullframe", "cleanup", "exit" }
        /\ pc = "exit" => (exitCode = 0 /\ uncaught = "")

C3_Witness ==
    /\ script = "custom_detect"
    /\ DetectedNothing
    /\ captured = "frame"
    /\ pc = "exit"
    /\ exitCode = 0

\* C4: in recognition.py a caught failure in the crop, the conversion and
\* encoding, the local save or the push of one detection does not end the
\* loop: the loop is left only when every detection of the list has been
\* taken, and every detection with a valid box has then been handed to the
\* crop step, whatever failed before it.
C4_FailureDoesNotAbort ==
    (script = "recognition" /\ detectRan /\ uncaught # "Detect"
        /\ pc \in { "fullframe", "cleanup", "exit" }) =>
        /\ idx = Len(detections)
        /\ ValidIndices \subseteq cropped
        /\ failedAt \subseteq ValidIndices

\* the first two detections failed and the third was still pushed
C4_Witness ==
    /\ script = "recognition"
    /\ pc = "exit"
    /\ exitCode = 0
    /\ failedAt = { 1, 2 }
    /\ 3 \in PushedIndices

\* C5 (as claimed): in custom_detect.py a detection whose integer box is
\* degenerate is never handed to the crop/encode step and never pushed.
C5_DegenerateSkippedCustom ==
    script = "custom_detect" =>
        \A i \in 1..Len(detections) :
            Degenerate(detections[i]) => i \notin cropped /\ i \notin PushedIndices

\* C6: the records persisted in a run only grow: every step leaves the
\* records already pushed in place and adds at most one, only a push section
\* changes them, and a push that failed leaves them exactly as they were.
C6_PersistedOnlyGrows ==
    [][ /\ IsPrefix(pushed, pushed')
        /\ Len(pushed') <= Len(pushed) + 1
        /\ (pc # "push") => pushed' = pushed
        /\ (pc = "push" /\ pc' # pc /\ lastPush' = "failed") => pushed' = pushed ]_vars

\* a push has just failed after an earlier push of the same run succeeded,
\* and the run goes on
C6_Witness ==
    /\ script = "recognition"
    /\ pc = "loop"
    /\ lastPush = "failed"
    /\ idx \in failedAt
    /\ idx = 3
    /\ PushedIndices = { 1, 2 }

\* the first signal arrived inside an iteration of the continuous loop
SignalledInIteration == ~single /\ sigPc \in { "in_capture", "sleep" }

\* C7: in run_continuous_capture the signal handler changes nothing but
\* running; after a signal delivered during capture_image or during the
\* sleep the iteration goes on to its end (capture_image returns into the
\* sleep, the sleep into the loop test), no capture_image is entered any
\* more, and the process ends with the camera released by cleanup.
C7_SignalStopsLoop ==
    /\ [][ (running' # running) =>
              /\ running' = FALSE
              /\ UNCHANGED << pc, exitCode, uncaught, camera, handles, lastCapture >> ]_vars
    /\ [][ SignalledInIteration =>
              /\ ~(pc # "in_capture" /\ pc' = "in_capture")
              /\ (pc = "in_capture" /\ pc' # pc /\ lastCapture' # "raised") => pc' = "sleep"
              /\ (pc = "sleep" /\ pc' # pc) => pc' = "test"
              /\ (pc = "test" /\ pc' # pc) => pc' = "cleanup" ]_vars
    /\ SignalledInIteration ~>
          (pc = "exit" /\ camera # 0 /\ handles[camera].released)

C7_Witness ==
    /\ script = "camera_capture"
    /\ ~single
    /\ sigPc = "in_capture"
    /\ lastCapture = "ok"
    /\ pc = "exit"
    /\ exitCode = 0
    /\ handles[camera].released

\* C8 (as claimed): when camera_capture.py has exited, every camera handle
\* setup_camera opened has been released by cleanup.
C8_HandlesReleasedAtExit ==
    (script = "camera_capture" /\ pc = "exit") =>
        \A h \in 1..Len(handles) : handles[h].opened => handles[h].released

\* C9 (as claimed): recognition.py exits with 1 exactly when the frame
\* capture failed, and with 0 otherwise.
C9_ExitOneOnlyOnCaptureFailure ==
    (script = "recognition" /\ pc = "exit") =>
        (exitCode = 1 <=> captured \in { "none", "raised" })

\* C9 (amended): recognition.py exits with 1 when the capture fails or when
\* the model or video-source initialization or the detection raises, none of
\* which is caught; otherwise it exits with 0: a failure of the Firebase
\* initialization, of a crop/encode, local save or push, of the full-frame
\* save or of the final Firebase cleanup is caught and leaves the code at 0.
C9_ExitCode ==
    (script = "recognition" /\ pc = "exit") =>
        /\ exitCode \in { 0, 1 }
        /\ exitCode = 1 <=> (captured \in { "none", "raised" }
                                \/ uncaught \in { "detectNet", "videoSource", "Detect" })
        /\ uncaught \in { "", "detectNet", "videoSource", "Capture", "Detect", "delete_app" }
        /\ uncaught = "delete_app" => captured = "none"
        /\ uncaught = "Capture" <=> captured = "raised"

\* exit code 0 after caught failures in the loop, without Firebase
C9_Witness ==
    /\ script = "recognition"
    /\ pc = "exit"
    /\ exitCode = 0
    /\ failedAt # { }
    /\ ~firebase_admin_initialized
    /\ save_local_fullframe

\* capture_image returned False
CaptureFailed(result) == result \in { "unavailable", "read_failed", "write_failed" }

\* C10 (as claimed): in run_continuous_capture, with a camera whose every
\* read fails and no signal, the loop stops attempting captures.
C10_FailingCameraStops ==
    \/ <>(lastCapture \in { "ok", "write_failed", "raised" })
    \/ <>(sigPc # "")
    \/ <>[](pc \notin { "call_capture", "in_capture" })

\* C10 (amended): in run_continuous_capture a capture failure ends only its
\* iteration: a capture_image that returns False is followed by the sleep,
\* with running unchanged, and after the sleep a capture is attempted again
\* unless a signal has cleared running.
C10_FailureEndsIterationOnly ==
    /\ [][ (~single /\ pc = "in_capture" /\ pc' # pc /\ CaptureFailed(lastCapture'))
              => (pc' = "sleep" /\ running' = running) ]_vars
    /\ (~single /\ pc = "sleep" /\ CaptureFailed(lastCapture))
          ~> (pc = "in_capture" \/ ~running)

\* one more capture is under way after MaxCount failed ones, with no signal
C10_Witness ==
    /\ script = "camera_capture"
    /\ ~single
    /\ failedCaptures = MaxCount
    /\ lastCapture = "read_failed"
    /\ pc = "in_capture"
    /\ running
    /\ sigPc = ""

\* base64.b64decode: four sextets back to three bytes, 64 is the padding
RECURSIVE B64Decode(_)
B64Decode(text) ==
    IF Len(text) < 4 THEN << >>
    ELSE LET b1 == text[1] * 4 + text[2] \div 16
             b2 == (text[2] % 16) * 16 + text[3] \div 4
             b3 == (text[3] % 4) * 64 + text[4]
             group == IF text[3] = 64 THEN << b1 >>
                      ELSE IF text[4] = 64 THEN << b1, b2 >>
                      ELSE << b1, b2, b3 >>
         IN  group \o B64Decode(SubSeq(text, 5, Len(text)))

\* an image byte buffer: the start-of-image marker and a width and a height
IsImage(bytes) == Len(bytes) = 4 /\ bytes[1] = 255 /\ bytes[2] = 216

\* C11 (as claimed): for every record pushed by recognition.py or
\* custom_detect.py, decoding the record's Base64 image field gives an image
\* byte buffer whose width is right - left and whose height is bottom - top
\* of the detection's integer bounding box.
C11_PayloadRoundTrip ==
    script \in { "recognition", "custom_detect" } =>
        \A k \in 1..Len(pushed) :
            LET box == pushed[k].boundingBox
                bytes == B64Decode(pushed[k].image)
            IN  /\ IsImage(bytes)
                /\ bytes[3] = PyInt(box.Right) - PyInt(box.Left)
                /\ bytes[4] = PyInt(box.Bottom) - PyInt(box.Top)

\* the same for recognition.py alone, where it holds
C11_PayloadRoundTripRecognition == script = "recognition" => C11_PayloadRoundTrip


\* C12: in recognition.py the records pushed are in the detector's list
\* order with at most one per detection, each is the record of the detection
\* at its index, all carry the capture timestamp read once after detection,
\* and with Firebase initialized and no failure in the loop there is exactly
\* one record for each detection with a valid box.
C12_OneRecordPerDetection ==
    script = "recognition" =>
        /\ \A k \in 1..Len(pushed) :
              /\ pushed[k].index \in 1..idx
              /\ pushed[k].boundingBox = detections[pushed[k].index]
              /\ pushed[k].captureTimestamp = pushed[1].captureTimestamp
              /\ pushed[k].captureTimestamp = capture_timestamp
              /\ \A j \in 1..(k - 1) : pushed[j].index < pushed[k].index
        /\ (RecLoopDone /\ firebase_admin_initialized /\ failedAt = { })
              => PushedIndices = ValidIndices

\* two records of one run, from the first and the third detection
C12_Witness ==
    /\ script = "recognition"
    /\ RecLoopDone
    /\ Len(pushed) = 2
    /\ pushed[1].index = 1
    /\ pushed[2].index = 3
    /\ pushed[1].boundingBox # pushed[2].boundingBox
    /\ failedAt = { }


\* C14: in recognition.py a record is added only by a push section that found
\* Firebase initialized and a Base64 snapshot produced for the detection at
\* hand, and the record carries that snapshot; a push section that finds
\* either missing pushes nothing; a failure of the local save leaves the
\* snapshot in place and goes on to the push section, which then attempts the
\* push when Firebase is initialized; a failure of the crop or of the
\* encoding goes on to the push section without a snapshot.
C14_PushNeedsFirebaseAndSnapshot ==
    [][ script = "recognition" =>
          /\ (pushed' # pushed) =>
                /\ pc = "push"
                /\ firebase_admin_initialized
                /\ base64_snapshot_str # << >>
                /\ base64_snapshot_str = Snapshot(Roi(detections[idx]))
                /\ pushed' = Append(pushed, pushed'[Len(pushed')])
                /\ pushed'[Len(pushed')].index = idx
                /\ pushed'[Len(pushed')].image = base64_snapshot_str
          /\ (pc = "push" /\ pc' # pc) =>
                IF firebase_admin_initialized /\ base64_snapshot_str # << >>
                THEN lastPush' \in { "ok", "failed" }
                ELSE lastPush' = "skipped" /\ pushed' = pushed
          /\ (pc = "save" /\ pc' # pc) =>
                /\ pc' = "push"
                /\ base64_snapshot_str # << >>
                /\ base64_snapshot_str' = base64_snapshot_str
          /\ (pc \in { "crop", "encode" } /\ failedAt' # failedAt) =>
                /\ pc' = "push"
                /\ base64_snapshot_str' = << >> ]_vars

\* the local save of the third detection failed and its record was pushed
\* all the same, while the second, whose crop or encoding failed, has none
C14_Witness ==
    /\ script = "recognition"
    /\ pc = "loop"
    /\ save_local_snapshots
    /\ idx = 3
    /\ lastPush = "ok"
    /\ failedAt = { 2, 3 }
    /\ PushedIndices = { 1, 3 }
    /\ ~Degenerate(detections[2])

(***************************************************************************)
(* detect_objects.py: parse_results                                        *)
(***************************************************************************)
ParseDone == script = "detect_objects" /\ pc \in { "return", "main", "exit" }

\* a row with a class and five numbers
WellFormed(row) ==
    Len(row) = 6 /\ \A k \in 2..6 : row[k] \in { "0.9", "0.5" }

\* a row with a field missing at its end or in the middle, or with a field
\* that is no number
Malformed(row) == row # BlankLine /\ ~WellFormed(row)

ItemOf(row) ==
    [class |-> row[1], confidence |-> FloatValue(row[2]),
     bounding_box |-> [center_x |-> FloatValue(row[3]),
                       center_y |-> FloatValue(row[4]),
                       width |-> FloatValue(row[5]),
                       height |-> FloatValue(row[6])]]

\* the data rows of a text whose first line is the header
DataRows(text) == SubSeq(text, 2, Len(text))

WellFormedItems(rows) ==
    LET good == SelectSeq(rows, WellFormed)
    IN  [k \in 1..Len(good) |-> ItemOf(good[k])]

HasHeader == csv_clean # << >> /\ csv_clean[1] = Header

\* C13: once parse_results has ended on a CSV text under the header,
\* malformed rows were skipped: the result is a dict and not None, and its
\* detected_items are the items of the well-formed rows, in input order.
C13_MalformedRowsSkipped ==
    (ParseDone /\ HasHeader) =>
        /\ parsed.kind = "dict"
        /\ parsed.detected_items = WellFormedItems(DataRows(csv_clean))
        /\ (pc = "exit" => results.kind = "dict")

\* the non-numeric and the empty field are skipped as the claim says: with
\* every data row of full length the result is the dict of the well-formed
\* rows
C13_FullRowsSkipped ==
    (ParseDone /\ HasHeader
        /\ \A k \in 2..Len(csv_clean) : Len(csv_clean[k]) \in { 0, 6 }) =>
        /\ parsed.kind = "dict"
        /\ parsed.detected_items = WellFormedItems(DataRows(csv_clean))

C13_FullRowsWitness ==
    /\ ParseDone /\ HasHeader
    /\ \A k \in 2..Len(csv_clean) : Len(csv_clean[k]) \in { 0, 6 }
    /\ \E k \in 2..Len(csv_clean) : Malformed(csv_clean[k])
    /\ Len(parsed.detected_items) = 1

\* the lines of a text that are neither empty nor a fence
Content(text) == SelectSeq(text, LAMBDA line : line \notin { BlankLine, Fence })

\* C15: when parse_results has ended, a dict it returns has total_items
\* equal to the length of detected_items; an empty or header-only CSV gives
\* the dict with no item and total_items 0; a missing or shorter-than-2
\* response gives None.
C15_TotalItemsIsLength ==
    ParseDone =>
        /\ parsed.kind = "dict" => parsed.total_items = Len(parsed.detected_items)
        /\ (api_response.kind = "pair"
               /\ Content(api_response.csv) \in { << >>, << Header >> }) =>
              parsed = [kind |-> "dict", detected_items |-> << >>, total_items |-> 0]
        /\ api_response.kind \in { "none", "short" } => parsed = None

\* a dict of one item out of two rows, the other one skipped
C15_Witness ==
    /\ ParseDone
    /\ parsed.kind = "dict"
    /\ Len(parsed.detected_items) = 1
    /\ row_no = 3
    /\ \E k \in 2..Len(csv_clean) : Malformed(csv_clean[k])

\* the three lines of the empty cases
C15_EmptyWitness ==
    /\ ParseDone
    /\ api_response.kind = "pair"
    /\ Len(api_response.csv) = 3
    /\ Content(api_response.csv) = << Header >>
    /\ parsed.kind = "dict"

====
